---- MODULE Spec2Model ----
(***************************************************************************)
(* Model of the documentation-coverage analyzer                            *)
(* (src/code-documentation/docstring_coverage.py), of the ADR helper       *)
(* (src/code-documentation/create_adr.py) and of the CSS generator         *)
(* (src/minimal_clean/minimal_clean.py).                                   *)
(*                                                                         *)
(* Text is modelled at the character level: a string is a sequence of      *)
(* one-character strings, so that strip, split, startswith, endswith and   *)
(* substring tests are computed as Python computes them.                   *)
(***************************************************************************)
EXTENDS Integers, Sequences, FiniteSets, TLC

VARIABLES
    a_file,          \* analyze_file: the file handed to it (status and syntax tree)
    a_pc,            \* analyze_file: "call" before the call, "returned" after it
    missing_items,   \* analyze_file: the list it returns
    a_before,        \* the earlier calls of analyze_file: the file and the list returned
    fs,              \* the directory tree under the working directory
    sys_argv,        \* sys.argv of the running process
    pc,              \* position of the running process
    walk_todo,       \* os.walk: the directories still to be yielded, next first
    root,            \* scan_directory: root of the current os.walk triple
    files,           \* scan_directory: files of the current triple not yet looped over
    missing,         \* scan_directory: findings of the current file not yet printed
    total_missing,   \* scan_directory: total_missing
    files_scanned,   \* scan_directory: files_scanned
    out,             \* standard output of the running process, one element per print
    analyzed,        \* the paths handed to analyze_file by the running process, in order
    yielded,         \* the directories os.walk has yielded to the running process, in order
    exit_code,       \* status passed to sys.exit, -1 while the process runs
    run,             \* "first" or "second" invocation on the same tree
    prev,            \* what the first invocation did, once the second has started
    adr_dir,         \* create_adr: the directory docs/adr, whether it exists and its files
    adr_proc,        \* create_adr: each process's position, title, number and file path
    adr_log,         \* create_adr: the calls that have ended, in the order they ended
    adr_mode,        \* create_adr: calls one after another, or concurrently
    css_in,          \* minimal_clean: base_hue, style, base_size and base_unit of the caller
    css_pc,          \* minimal_clean: position of the caller
    palette,         \* minimal_clean: what generate_minimal_color_palette returned
    typography,      \* minimal_clean: what create_typography_system returned
    spacing,         \* minimal_clean: what optimize_layout_spacing returned
    css              \* minimal_clean: what generate_css_from_principles returned or raised

avars == <<a_file, a_pc, missing_items, a_before>>
svars == <<fs, sys_argv, pc, walk_todo, root, files, missing, total_missing,
           files_scanned, out, analyzed, yielded, exit_code, run, prev>>
dvars == <<adr_dir, adr_proc, adr_log, adr_mode>>
cvars == <<css_in, css_pc, palette, typography, spacing, css>>
ovars == <<dvars, cvars>>
vars == <<avars, svars, ovars>>

(***************************************************************************)
(* Bounds                                                                  *)
(***************************************************************************)
\* Largest number of compound statements (def, async def, class, if) in a file.
MaxNodes == 3
\* Longest leading string literal, in characters, of the docstring files.
MaxDocLen == 3

(***************************************************************************)
(* Sequence helpers                                                        *)
(***************************************************************************)
RECURSIVE SeqsUpTo(_, _)
\* All sequences over S of length at most n.
SeqsUpTo(S, n) ==
    IF n = 0 THEN {<<>>}
    ELSE LET shorter == SeqsUpTo(S, n - 1)
         IN  shorter \cup {Append(s, c) : s \in {t \in shorter : Len(t) = n - 1}, c \in S}

RECURSIVE Flatten(_)
\* Concatenation of a sequence of sequences.
Flatten(ss) == IF ss = <<>> THEN <<>> ELSE Head(ss) \o Flatten(Tail(ss))

SetMin(S) == CHOOSE m \in S : \A k \in S : m <= k

(***************************************************************************)
(* inspect.cleandoc and ast.get_docstring, as called at lines 37, 42, 50   *)
(***************************************************************************)
\* The first statement of the body is not a string-literal expression (None).
NoDoc == <<"None">>
Whitespace == {" ", "\n"}
DocAlphabet == {" ", "\n", "x"}

RECURSIVE split(_, _)
\* str.split(sep): the pieces of s between the occurrences of the character sep.
split(s, sep) ==
    IF \A i \in 1..Len(s) : s[i] # sep THEN <<s>>
    ELSE LET k == SetMin({i \in 1..Len(s) : s[i] = sep})
         IN  <<SubSeq(s, 1, k - 1)>> \o split(SubSeq(s, k + 1, Len(s)), sep)

RECURSIVE lstrip(_)
\* str.lstrip(): s without its leading whitespace.
lstrip(s) == IF s # <<>> /\ Head(s) \in Whitespace THEN lstrip(Tail(s)) ELSE s

RECURSIVE pop_trailing(_)
\* while lines and not lines[-1]: lines.pop()
pop_trailing(lines) ==
    IF lines # <<>> /\ lines[Len(lines)] = <<>>
    THEN pop_trailing(SubSeq(lines, 1, Len(lines) - 1))
    ELSE lines

RECURSIVE pop_leading(_)
\* while lines and not lines[0]: lines.pop(0)
pop_leading(lines) ==
    IF lines # <<>> /\ Head(lines) = <<>> THEN pop_leading(Tail(lines)) ELSE lines

RECURSIVE join(_, _)
\* sep.join(lines)
join(lines, sep) ==
    IF lines = <<>> THEN <<>>
    ELSE IF Len(lines) = 1 THEN Head(lines)
    ELSE Head(lines) \o <<sep>> \o join(Tail(lines), sep)

\* inspect.cleandoc(doc): the first line loses its leading whitespace, the later
\* lines lose the smallest indentation of a later line that has content (none
\* when no later line has content), blank lines at both ends are dropped.
cleandoc(doc) ==
    LET lines == split(doc, "\n")
        later == {i \in 2..Len(lines) : Len(lstrip(lines[i])) # 0}
        indents == {Len(lines[i]) - Len(lstrip(lines[i])) : i \in later}
        stripped == [i \in 1..Len(lines) |->
                        IF i = 1 THEN lstrip(lines[1])
                        ELSE IF indents = {} THEN lines[i]
                        ELSE SubSeq(lines[i], SetMin(indents) + 1, Len(lines[i]))]
    IN  join(pop_leading(pop_trailing(stripped)), "\n")

\* ast.get_docstring(node): NoDoc when the first statement of the body is not a
\* string literal, else the literal cleaned by inspect.cleandoc.
get_docstring(node) == IF node.doc = NoDoc THEN NoDoc ELSE cleandoc(node.doc)

\* The test of lines 37, 42 and 50 with constructors exempted.
not_docstring_exempts_init(node) ==
    node.name # "__init__" /\ get_docstring(node) \in {NoDoc, <<>>}

\* not ast.get_docstring(node): None and the empty string are both falsy.
not_docstring(node) == get_docstring(node) \in {NoDoc, <<>>}

(***************************************************************************)
(* The syntax tree of a file                                               *)
(*                                                                         *)
(* A file is [status, nodes].  nodes lists the compound statements of the  *)
(* file in source order; node i has a kind, the index of the statement     *)
(* whose body holds it (0 for the module), its name, its line and the      *)
(* leading string literal of its body (NoDoc when there is none).          *)
(***************************************************************************)
FunctionKinds == {"FunctionDef", "AsyncFunctionDef"}
Kinds == FunctionKinds \cup {"ClassDef", "If"}
NodeNames == <<"A", "__init__", "__str__", "b", "e", "g">>
TreeDocs == {NoDoc, <<"x">>}

\* The statements a node that follows node i may sit in: the module, node i, or
\* any statement enclosing node i.  parents[j] is the statement holding node j.
RECURSIVE OpenScopes(_, _)
OpenScopes(parents, i) ==
    IF i = 0 THEN {0} ELSE {i} \cup OpenScopes(parents, parents[i])

\* The nesting of statements listed in source order.
WellNested(parents) ==
    /\ \A i \in DOMAIN parents : parents[i] < i
    /\ \A i \in DOMAIN parents : parents[i] \in OpenScopes(parents, i - 1)

\* The nodes of a file of n statements.
TreeNodes(n, kinds, parents, docs) ==
    [i \in 1..n |-> [kind |-> kinds[i], parent |-> parents[i], name |-> NodeNames[i],
                     lineno |-> i, doc |-> docs[i]]]

\* The file of n statements with these kinds, nesting and leading literals.
TreeFile(n, kinds, parents, docs) ==
    [status |-> "ok", nodes |-> TreeNodes(n, kinds, parents, docs)]

\* One declaration with any leading string up to MaxDocLen characters, at the
\* top level of the module or as a member of a documented class.
DocStrings == SeqsUpTo(DocAlphabet, MaxDocLen) \cup {NoDoc}
DocFiles ==
    {[status |-> "ok",
      nodes |-> <<[kind |-> k, parent |-> 0, name |-> "f", lineno |-> 1, doc |-> d]>>] :
        k \in Kinds \ {"If"}, d \in DocStrings}
    \cup
    {[status |-> "ok",
      nodes |-> <<[kind |-> "ClassDef", parent |-> 0, name |-> "A", lineno |-> 1,
                   doc |-> <<"x">>],
                  [kind |-> k, parent |-> 1, name |-> "f", lineno |-> 3, doc |-> d]>>] :
        k \in FunctionKinds, d \in DocStrings}

\* Files that cannot be read or parsed.
BadStatuses == {"ioerror", "decodeerror", "syntaxerror"}
BadFiles == {[status |-> s, nodes |-> <<>>] : s \in BadStatuses}

\* Files on which ast.parse (line 28) raises an exception that is not a
\* SyntaxError: an expression nested too deep for the compiler's recursion
\* limit ('x = 1' followed by '+1' some thousand times) raises RecursionError.
RaisingStatuses == {"recursionerror"}
RaisingFiles == {[status |-> s, nodes |-> <<>>] : s \in RaisingStatuses}


(***************************************************************************)
(* analyze_file                                                            *)
(***************************************************************************)
\* node.body restricted to compound statements, in source order; 0 is the module.
body(nodes, i) ==
    LET members == {j \in 1..Len(nodes) : nodes[j].parent = i}
        RECURSIVE Sorted(_)
        Sorted(S) == IF S = {} THEN <<>>
                     ELSE <<SetMin(S)>> \o Sorted(S \ {SetMin(S)})
    IN  Sorted(members)

RECURSIVE walk(_, _)
\* ast.walk: breadth first, a queue that takes the children of each node popped.
walk(nodes, todo) ==
    IF todo = <<>> THEN <<>>
    ELSE <<Head(todo)>> \o walk(nodes, Tail(todo) \o body(nodes, Head(todo)))

Finding(type, lineno, name) == [type |-> type, line |-> lineno, name |-> name]

\* Lines 35-38.
FunctionItems(node) ==
    IF not_docstring(node) THEN <<Finding("Function", node.lineno, node.name)>> ELSE <<>>

\* Lines 47-51, for one member of node.body.
MethodItems(cls, item) ==
    IF item.kind \in FunctionKinds /\ not_docstring(item)
    THEN <<Finding("Method", item.lineno, cls.name \o "." \o item.name)>>
    ELSE <<>>

\* Lines 41-51 with the loop of line 46 running over every statement nested in
\* the class instead of node.body.
ClassItemsDeep(nodes, i) ==
    (IF not_docstring(nodes[i]) THEN <<Finding("Class", nodes[i].lineno, nodes[i].name)>>
     ELSE <<>>)
    \o Flatten([k \in 1..Len(Tail(walk(nodes, <<i>>))) |->
                    MethodItems(nodes[i], nodes[Tail(walk(nodes, <<i>>))[k]])])

\* Lines 41-51.
ClassItems(nodes, i) ==
    (IF not_docstring(nodes[i]) THEN <<Finding("Class", nodes[i].lineno, nodes[i].name)>>
     ELSE <<>>)
    \o Flatten([k \in 1..Len(body(nodes, i)) |->
                    MethodItems(nodes[i], nodes[body(nodes, i)[k]])])

\* Lines 33-51, for one node of the walk.
NodeItems(nodes, i) ==
    IF i = 0 THEN <<>>
    ELSE IF nodes[i].kind \in FunctionKinds THEN FunctionItems(nodes[i])
    ELSE IF nodes[i].kind = "ClassDef" THEN ClassItems(nodes, i)
    ELSE <<>>

\* analyze_file reporting a file that does not parse instead of skipping it.
analyze_file_flags_errors(file) ==
    IF file.status \in {"ioerror", "decodeerror"} THEN <<>>
    ELSE IF file.status = "syntaxerror" THEN <<Finding("SyntaxError", 1, "")>>
    ELSE LET order == walk(file.nodes, <<0>>)
         IN  Flatten([k \in 1..Len(order) |-> NodeItems(file.nodes, order[k])])

\* Lines 20-31: the call ends with an exception that neither `except` catches.
raises(file) == file.status \in RaisingStatuses

\* Lines 13-53, for a call that returns.
analyze_file(file) ==
    IF file.status \in {"ioerror", "decodeerror"} THEN <<>>
    ELSE IF file.status = "syntaxerror" THEN <<>>
    ELSE LET order == walk(file.nodes, <<0>>)
         IN  Flatten([k \in 1..Len(order) |-> NodeItems(file.nodes, order[k])])

(***************************************************************************)
(* Paths and the directory tree                                            *)
(***************************************************************************)
\* os.sep
sep == "/"
\* The working directory of the process.
Cwd == <<"/", "w">>
PYCACHE == <<"_", "_", "p", "y", "c", "a", "c", "h", "e", "_", "_">>
PY == <<".", "p", "y">>

\* s.startswith(prefix), s.endswith(suffix), sub in s
startswith(s, prefix) == Len(s) >= Len(prefix) /\ SubSeq(s, 1, Len(prefix)) = prefix
endswith(s, suffix) ==
    Len(s) >= Len(suffix) /\ SubSeq(s, Len(s) - Len(suffix) + 1, Len(s)) = suffix
contains(s, sub) == \E k \in 0..(Len(s) - Len(sub)) : SubSeq(s, k + 1, k + Len(sub)) = sub

\* os.path.join(a, b)
path_join(a, b) ==
    IF startswith(b, <<sep>>) THEN b
    ELSE IF a = <<>> \/ a[Len(a)] = sep THEN a \o b
    ELSE a \o <<sep>> \o b

RECURSIVE norm_parts(_, _)
\* os.path.normpath on the components of an absolute path: empty and "."
\* components are dropped, ".." drops the component before it.
norm_parts(parts, acc) ==
    IF parts = <<>> THEN acc
    ELSE IF Head(parts) \in {<<>>, <<".">>} THEN norm_parts(Tail(parts), acc)
    ELSE IF Head(parts) = <<".", ".">>
         THEN norm_parts(Tail(parts), SubSeq(acc, 1, Len(acc) - 1))
    ELSE norm_parts(Tail(parts), Append(acc, Head(parts)))

abs_parts(path) == norm_parts(split(path_join(Cwd, path), sep), <<>>)

\* os.path.abspath(path)
abspath(path) == <<sep>> \o join(abs_parts(path), sep)

\* A tree is a sequence of entries; entry i lies in the directory fs[i].parent
\* (0 is the working directory), and a directory lists its entries in the
\* order of their indices (the order os.scandir enumerates them in).  An entry
\* is a directory, a file, or a symbolic link to a directory: fs[i].target is
\* the directory a link points to (0 is the working directory), NotFound for
\* the other entries.
NotFound == 0 - 1
NoContent == [status |-> "directory", nodes |-> <<>>]

Children(tree, n) == {i \in 1..Len(tree) : tree[i].parent = n}

\* The entry a symbolic link stands for when a path is resolved through it.
Follow(tree, i) == IF tree[i].kind = "link" THEN tree[i].target ELSE i

RECURSIVE Descend(_, _, _)
Descend(tree, n, parts) ==
    IF parts = <<>> THEN n
    ELSE IF n # 0 /\ tree[n].kind # "dir" THEN NotFound
    ELSE LET hit == {i \in Children(tree, n) : tree[i].name = Head(parts)}
         IN  IF hit = {} THEN NotFound
             ELSE Descend(tree, Follow(tree, CHOOSE i \in hit : TRUE), Tail(parts))

\* The entry a path names (0 for the working directory), NotFound when none does.
Resolve(tree, path) ==
    LET parts == abs_parts(path)
        here == abs_parts(Cwd)
    IN  IF Len(parts) >= Len(here) /\ SubSeq(parts, 1, Len(here)) = here
        THEN Descend(tree, 0, SubSeq(parts, Len(here) + 1, Len(parts)))
        ELSE NotFound

\* os.path.isdir(path)
isdir(tree, path) ==
    LET n == Resolve(tree, path)
    IN  IF n = NotFound THEN FALSE ELSE IF n = 0 THEN TRUE ELSE tree[n].kind = "dir"

\* os.path.islink(path): the last component, not followed, is a symbolic link.
islink(tree, path) ==
    LET parts == abs_parts(path)
        here == abs_parts(Cwd)
        below == SubSeq(parts, Len(here) + 1, Len(parts))
        parent == IF below = <<>> THEN NotFound
                  ELSE Descend(tree, 0, SubSeq(below, 1, Len(below) - 1))
    IN  IF Len(parts) < Len(here) \/ parent = NotFound THEN FALSE
        ELSE IF SubSeq(parts, 1, Len(here)) # here THEN FALSE
        ELSE \E i \in Children(tree, parent) :
                tree[i].name = below[Len(below)] /\ tree[i].kind = "link"

\* entry.is_dir() of os.walk: a directory, or a symbolic link to one.
EntryKinds(kind) == IF kind = "dir" THEN {"dir", "link"} ELSE {kind}

RECURSIVE Ascending(_)
Ascending(S) == IF S = {} THEN <<>> ELSE <<SetMin(S)>> \o Ascending(S \ {SetMin(S)})

\* os.scandir(top), split as os.walk splits it into dirs and nondirs (names).
scandir(tree, top, kind) ==
    LET n == Resolve(tree, top)
        listed == Ascending({i \in Children(tree, n) : tree[i].kind \in EntryKinds(kind)})
    IN  [k \in 1..Len(listed) |-> tree[listed[k]].name]

\* The characters of the paths, in ascending code point order.
CodePoints == <<".", "/", "_", "a", "b", "c", "e", "h", "p", "s", "w", "y">>
ord(c) == CHOOSE k \in DOMAIN CodePoints : CodePoints[k] = c

RECURSIVE str_less(_, _)
\* s < t for Python strings: lexicographic by code point.
str_less(s, t) ==
    IF t = <<>> THEN FALSE
    ELSE IF s = <<>> THEN TRUE
    ELSE IF Head(s) = Head(t) THEN str_less(Tail(s), Tail(t))
    ELSE ord(Head(s)) < ord(Head(t))

RECURSIVE sorted(_)
\* sorted(names)
sorted(names) ==
    IF names = <<>> THEN <<>>
    ELSE LET k == CHOOSE i \in DOMAIN names :
                    \A j \in DOMAIN names : ~str_less(names[j], names[i])
         IN  <<names[k]>> \o sorted(SubSeq(names, 1, k - 1) \o SubSeq(names, k + 1, Len(names)))

\* os.walk with the files of every directory sorted by name.
walk_triple_sorted(tree, top) ==
    [dirs |-> scandir(tree, top, "dir"), files |-> sorted(scandir(tree, top, "file"))]

\* Line 64: the dirs and files of the triple os.walk yields for top, both in
\* the order os.scandir enumerates them.
walk_triple(tree, top) ==
    [dirs |-> scandir(tree, top, "dir"), files |-> scandir(tree, top, "file")]

\* open(filepath).read() and ast.parse: the file a path names.
file_at(tree, filepath) == tree[Resolve(tree, filepath)].content

(***************************************************************************)
(* The directory trees and command lines explored                          *)
(***************************************************************************)
\* Largest number of entries (directories and files) under the working directory.
MaxEntries == 2

DocumentedFile ==
    [status |-> "ok",
     nodes |-> <<[kind |-> "FunctionDef", parent |-> 0, name |-> "f", lineno |-> 1,
                  doc |-> <<"x">>]>>]
UndocumentedFile ==
    [status |-> "ok",
     nodes |-> <<[kind |-> "AsyncFunctionDef", parent |-> 0, name |-> "f", lineno |-> 1,
                  doc |-> NoDoc]>>]
UndocumentedClassFile ==
    [status |-> "ok",
     nodes |-> <<[kind |-> "ClassDef", parent |-> 0, name |-> "A", lineno |-> 1,
                  doc |-> NoDoc],
                 [kind |-> "If", parent |-> 0, name |-> "", lineno |-> 3,
                  doc |-> NoDoc],
                 [kind |-> "FunctionDef", parent |-> 2, name |-> "g", lineno |-> 4,
                  doc |-> <<>>]>>]
SyntaxErrorFile == [status |-> "syntaxerror", nodes |-> <<>>]
UnreadableFile == [status |-> "ioerror", nodes |-> <<>>]
DeepExpressionFile == [status |-> "recursionerror", nodes |-> <<>>]
ScanSamples ==
    {DocumentedFile, UndocumentedFile, UndocumentedClassFile, SyntaxErrorFile,
     UnreadableFile, DeepExpressionFile}

DirNames == {<<"a">>, <<".", "a">>, PYCACHE, <<"a">> \o PYCACHE}
SourceNames == {<<"a">> \o PY, <<"b">> \o PY}
OtherNames == {<<"a">> \o PY \o <<"c">>}
LinkNames == {<<"l">>}
EntryChoices ==
    [kind : {"dir"}, name : DirNames, content : {NoContent}]
    \cup [kind : {"link"}, name : LinkNames, content : {NoContent}]
    \cup [kind : {"file"}, name : SourceNames, content : ScanSamples]
    \cup [kind : {"file"}, name : OtherNames, content : {UndocumentedFile}]

RECURSIVE FileSystems(_)
\* All trees of at most n entries.
FileSystems(n) ==
    IF n = 0 THEN {<<>>}
    ELSE LET smaller == FileSystems(n - 1)
         IN  smaller \cup
             {Append(t, [parent |-> p, kind |-> e.kind, name |-> e.name,
                         content |-> e.content, target |-> g]) :
                <<t, e, p, g>> \in
                    {x \in {u \in smaller : Len(u) = n - 1} \X EntryChoices
                                \X (0..(n - 1)) \X (NotFound..(n - 1)) :
                        /\ x[3] = 0 \/ x[1][x[3]].kind = "dir"
                        /\ \A i \in Children(x[1], x[3]) : x[1][i].name # x[2].name
                        /\ IF x[2].kind # "link" THEN x[4] = NotFound
                           ELSE IF x[4] > 0 THEN x[1][x[4]].kind = "dir"
                           ELSE x[4] = 0}}

\* sys.argv[0]
Script == <<"s">>
\* No argument, the working directory by its absolute path, and a path that
\* names a file or nothing.
ArgvChoices == {<<Script>>, <<Script, Cwd>>, <<Script, path_join(Cwd, <<"a">> \o PY)>>}

(***************************************************************************)
(* Standard output                                                         *)
(***************************************************************************)
Printed(t, path, n, type, name) ==
    [t |-> t, path |-> path, n |-> n, type |-> type, name |-> name]
\* Line 96
PrintError(dir) == Printed("Error: Directory does not exist.", dir, 0, "", "")
\* Line 62
PrintScanning(path) == Printed("Scanning directory:", path, 0, "", "")
\* Line 78
PrintFile(path) == Printed("filepath:", path, 0, "", "")
\* Line 80
PrintItem(item) == Printed("is missing a docstring.", <<>>, item.line, item.type, item.name)
\* Line 82
PrintBlank == Printed("", <<>>, 0, "", "")
\* Line 84
PrintSummary == Printed("--- Summary ---", <<>>, 0, "", "")
\* Line 85
PrintTotal(n) == Printed("Total missing docstrings found:", <<>>, n, "", "")
\* Line 90
PrintNone == Printed("No missing docstrings found!", <<>>, 0, "", "")

(***************************************************************************)
(* The process: __main__ and scan_directory                                *)
(***************************************************************************)
NoRun == [fs |-> <<>>, sys_argv |-> <<>>, out |-> <<>>, analyzed |-> <<>>,
          exit_code |-> 0 - 1, total_missing |-> 0, files_scanned |-> 0]

\* No process of the analyzer runs (the specification of analyze_file alone).
NoProcess ==
    /\ fs = <<>>
    /\ sys_argv = <<>>
    /\ pc = "none"
    /\ walk_todo = <<>>
    /\ root = <<>>
    /\ files = <<>>
    /\ missing = <<>>
    /\ total_missing = 0
    /\ files_scanned = 0
    /\ out = <<>>
    /\ analyzed = <<>>
    /\ yielded = <<>>
    /\ exit_code = 0 - 1
    /\ run = "none"
    /\ prev = NoRun

\* No call of create_adr.
NoAdr ==
    /\ adr_dir = [exists |-> FALSE, files |-> <<>>]
    /\ adr_proc = <<>>
    /\ adr_log = <<>>
    /\ adr_mode = "none"

\* No call into minimal_clean.
NoCss ==
    /\ css_in = [base_hue |-> 0, style |-> "", base_size |-> 0, base_unit |-> 0]
    /\ css_pc = "none"
    /\ palette = <<>>
    /\ typography = <<>>
    /\ spacing = <<>>
    /\ css = <<>>

\* No call of analyze_file on its own (the specification of the scan).
NoCall ==
    /\ a_file = [status |-> "ok", nodes |-> <<>>]
    /\ a_pc = "none"
    /\ missing_items = <<>>
    /\ a_before = <<>>

\* A process started on a command line, before its first statement.
Started(argv) ==
    /\ sys_argv = argv
    /\ pc = "main"
    /\ walk_todo = <<>>
    /\ root = <<>>
    /\ files = <<>>
    /\ missing = <<>>
    /\ total_missing = 0
    /\ files_scanned = 0
    /\ out = <<>>
    /\ analyzed = <<>>
    /\ yielded = <<>>
    /\ exit_code = 0 - 1

InitScan ==
    /\ fs \in FileSystems(MaxEntries)
    /\ \E argv \in ArgvChoices : Started(argv)
    /\ run = "first"
    /\ prev = NoRun
    /\ NoCall
    /\ NoAdr
    /\ NoCss

\* Line 94
target_dir == IF Len(sys_argv) > 1 THEN sys_argv[2] ELSE <<".">>

\* Lines 93-99 without the sys.exit(1) of line 97: the error is printed and
\* scan_directory is called all the same.
MainErrorNoExit ==
    /\ pc = "main"
    /\ ~isdir(fs, target_dir)
    /\ total_missing' = 0
    /\ files_scanned' = 0
    /\ out' = out \o <<PrintError(target_dir), PrintScanning(abspath(target_dir))>>
    /\ walk_todo' = <<target_dir>>
    /\ pc' = "walk"
    /\ UNCHANGED <<fs, sys_argv, root, files, missing, analyzed, exit_code, run, prev,
                   yielded, avars, ovars>>

\* Lines 93-97: the root is not a directory.
MainError ==
    /\ pc = "main"
    /\ ~isdir(fs, target_dir)
    /\ out' = Append(out, PrintError(target_dir))
    /\ exit_code' = 1
    /\ pc' = "exited"
    /\ UNCHANGED <<fs, sys_argv, walk_todo, root, files, missing, total_missing,
                   files_scanned, analyzed, run, prev, yielded, avars, ovars>>

\* scan_directory without lines 59-60: the counters are not set to 0.
MainScanKeepsCounts ==
    /\ pc = "main"
    /\ isdir(fs, target_dir)
    /\ out' = Append(out, PrintScanning(abspath(target_dir)))
    /\ walk_todo' = <<target_dir>>
    /\ pc' = "walk"
    /\ UNCHANGED <<fs, sys_argv, root, files, missing, total_missing, files_scanned,
                   analyzed, exit_code, run, prev, yielded, avars, ovars>>

\* Lines 93-99 and 55-64: the root is a directory, scan_directory starts.
MainScan ==
    /\ pc = "main"
    /\ isdir(fs, target_dir)
    /\ total_missing' = 0
    /\ files_scanned' = 0
    /\ out' = Append(out, PrintScanning(abspath(target_dir)))
    /\ walk_todo' = <<target_dir>>
    /\ pc' = "walk"
    /\ UNCHANGED <<fs, sys_argv, root, files, missing, analyzed, exit_code, run, prev,
                   yielded, avars, ovars>>

\* Lines 66-69 without the test of line 66.
skipped_cache_only(top) == contains(top, PYCACHE)

\* Lines 66-69: the triple of this directory is skipped.
skipped(top) ==
    IF \E k \in DOMAIN split(top, sep) : startswith(split(top, sep)[k], <<".">>)
    THEN TRUE
    ELSE contains(top, PYCACHE)

\* The position after the loop over `files` moved past one file.
after_file(rest) == IF rest = <<>> THEN "walk" ELSE "files"

\* Line 64, os.walk with followlinks left False: a directory listed in dirs
\* is walked unless it is a symbolic link.
descends(tree, new_path) == ~islink(tree, new_path)

\* Lines 64-69: os.walk yields the next directory, top-down; its subdirectories
\* are walked, in the order listed, before the directories already waiting.
WalkDir ==
    /\ pc = "walk"
    /\ walk_todo # <<>>
    /\ LET top == Head(walk_todo)
           dirs == walk_triple(fs, top).dirs
           nondirs == walk_triple(fs, top).files
           new_paths == [k \in 1..Len(dirs) |-> path_join(top, dirs[k])]
       IN  /\ walk_todo' = SelectSeq(new_paths, LAMBDA new_path : descends(fs, new_path))
                           \o Tail(walk_todo)
           /\ yielded' = Append(yielded, top)
           /\ root' = top
           /\ files' = IF skipped(top) THEN <<>> ELSE nondirs
           /\ pc' = IF skipped(top) THEN "walk" ELSE after_file(nondirs)
    /\ UNCHANGED <<fs, sys_argv, missing, total_missing, files_scanned, out,
                   analyzed, exit_code, run, prev, avars, ovars>>

\* Lines 71-72: a file whose name does not end in ".py" is passed over.
SkipFile ==
    /\ pc = "files"
    /\ ~endswith(Head(files), PY)
    /\ files' = Tail(files)
    /\ pc' = after_file(Tail(files))
    /\ UNCHANGED <<fs, sys_argv, walk_todo, root, missing, total_missing,
                   files_scanned, out, analyzed, exit_code, run, prev, yielded, avars, ovars>>

\* Lines 71-82 without the test of line 76: every analyzed file is counted and
\* gets a header, with or without findings.
ScanFileAlwaysBlock ==
    /\ pc = "files"
    /\ endswith(Head(files), PY)
    /\ ~raises(file_at(fs, path_join(root, Head(files))))
    /\ LET filepath == path_join(root, Head(files))
           found == analyze_file(file_at(fs, filepath))
       IN  /\ analyzed' = Append(analyzed, filepath)
           /\ files_scanned' = files_scanned + 1
           /\ out' = Append(out, PrintFile(filepath))
           /\ missing' = found
           /\ pc' = "items"
           /\ files' = Tail(files)
    /\ UNCHANGED <<fs, sys_argv, walk_todo, root, total_missing, exit_code, run,
                   prev, yielded, avars, ovars>>

\* Lines 71-78: the next file is analyzed; with findings, it is counted and its
\* header is printed.
ScanFile ==
    /\ pc = "files"
    /\ endswith(Head(files), PY)
    /\ ~raises(file_at(fs, path_join(root, Head(files))))
    /\ LET filepath == path_join(root, Head(files))
           found == analyze_file(file_at(fs, filepath))
       IN  /\ analyzed' = Append(analyzed, filepath)
           /\ IF found # <<>>
              THEN /\ files_scanned' = files_scanned + 1
                   /\ out' = Append(out, PrintFile(filepath))
                   /\ missing' = found
                   /\ pc' = "items"
                   /\ files' = Tail(files)
              ELSE /\ files' = Tail(files)
                   /\ pc' = after_file(Tail(files))
                   /\ UNCHANGED <<files_scanned, out, missing>>
    /\ UNCHANGED <<fs, sys_argv, walk_todo, root, total_missing, exit_code, run,
                   prev, yielded, avars, ovars>>

\* Lines 73-74 and 28: analyze_file raises; the exception passes through
\* scan_directory and __main__, the interpreter prints the traceback on standard
\* error and the process ends with status 1.
ScanFileRaises ==
    /\ pc = "files"
    /\ endswith(Head(files), PY)
    /\ raises(file_at(fs, path_join(root, Head(files))))
    /\ analyzed' = Append(analyzed, path_join(root, Head(files)))
    /\ exit_code' = 1
    /\ pc' = "crashed"
    /\ UNCHANGED <<fs, sys_argv, walk_todo, root, files, missing, total_missing,
                   files_scanned, out, run, prev, yielded, avars, ovars>>

\* Lines 79-80: the line of the next finding is printed.
ReportItem ==
    /\ pc = "items"
    /\ missing # <<>>
    /\ out' = Append(out, PrintItem(Head(missing)))
    /\ pc' = "count"
    /\ UNCHANGED <<fs, sys_argv, walk_todo, root, files, missing, total_missing,
                   files_scanned, analyzed, exit_code, run, prev, yielded, avars, ovars>>

\* Line 81 followed by a sys.exit(1): the scan is given up at the first
\* finding.
CountItemAborts ==
    /\ pc = "count"
    /\ total_missing' = total_missing + 1
    /\ missing' = Tail(missing)
    /\ exit_code' = 1
    /\ pc' = "exited"
    /\ UNCHANGED <<fs, sys_argv, walk_todo, root, files, files_scanned, out,
                   analyzed, run, prev, yielded, avars, ovars>>

\* The loop of lines 79-81 without line 81: the finding is not counted.
CountItemNot ==
    /\ pc = "count"
    /\ missing' = Tail(missing)
    /\ pc' = "items"
    /\ UNCHANGED <<fs, sys_argv, walk_todo, root, files, total_missing, files_scanned,
                   out, analyzed, exit_code, run, prev, yielded, avars, ovars>>

\* Line 81: the finding just printed is counted, and the loop over `missing`
\* moves on.
CountItem ==
    /\ pc = "count"
    /\ total_missing' = total_missing + 1
    /\ missing' = Tail(missing)
    /\ pc' = "items"
    /\ UNCHANGED <<fs, sys_argv, walk_todo, root, files, files_scanned, out,
                   analyzed, exit_code, run, prev, yielded, avars, ovars>>

\* Line 82: the blank line that ends the block of a file.
EndFile ==
    /\ pc = "items"
    /\ missing = <<>>
    /\ out' = Append(out, PrintBlank)
    /\ pc' = after_file(files)
    /\ UNCHANGED <<fs, sys_argv, walk_todo, root, files, missing, total_missing,
                   files_scanned, analyzed, exit_code, run, prev, yielded, avars, ovars>>

\* The status with the comparison of line 87 off by one.
exit_status_off_by_one(total) == IF total > 1 THEN 1 ELSE 0

\* Lines 87-91: the status passed to sys.exit.
exit_status(total) == IF total > 0 THEN 1 ELSE 0

\* Lines 84-91: the walk is over; the summary and the exit status.
Summary ==
    /\ pc = "walk"
    /\ walk_todo = <<>>
    /\ out' = out \o <<PrintSummary, PrintTotal(total_missing)>>
                  \o (IF total_missing > 0 THEN <<>> ELSE <<PrintNone>>)
    /\ exit_code' = exit_status(total_missing)
    /\ pc' = "exited"
    /\ UNCHANGED <<fs, sys_argv, walk_todo, root, files, missing, total_missing,
                   files_scanned, analyzed, run, prev, yielded, avars, ovars>>

\* What a finished run leaves for comparison with the next one.
Finished ==
    [fs |-> fs, sys_argv |-> sys_argv, out |-> out, analyzed |-> analyzed,
     exit_code |-> exit_code, total_missing |-> total_missing,
     files_scanned |-> files_scanned]

\* A new process starts on the command line argv; total_missing and
\* files_scanned are locals of scan_directory and get their values there.
Restart(argv) ==
    /\ prev' = Finished
    /\ run' = "second"
    /\ sys_argv' = argv
    /\ pc' = "main"
    /\ walk_todo' = <<>>
    /\ root' = <<>>
    /\ files' = <<>>
    /\ missing' = <<>>
    /\ out' = <<>>
    /\ analyzed' = <<>>
    /\ yielded' = <<>>
    /\ exit_code' = 0 - 1
    /\ UNCHANGED <<total_missing, files_scanned, avars, ovars>>

\* The program is run a second time on the same, unmodified tree.
RunAgain ==
    /\ pc = "exited"
    /\ run = "first"
    /\ \E argv \in ArgvChoices : Restart(argv)
    /\ UNCHANGED fs

\* The candidate files of a tree that cannot be read or parsed.
BadCandidates(tree) ==
    {i \in 1..Len(tree) :
        /\ tree[i].kind = "file"
        /\ endswith(tree[i].name, PY)
        /\ tree[i].content.status \in BadStatuses}

\* The tree without its entry i, a file.
Without(tree, i) ==
    [k \in 1..(Len(tree) - 1) |->
        LET e == IF k < i THEN tree[k] ELSE tree[k + 1]
        IN  [e EXCEPT !.parent = IF e.parent > i THEN e.parent - 1 ELSE e.parent,
                      !.target = IF e.target > i THEN e.target - 1 ELSE e.target]]

\* The program is run a second time, on the same command line, after one
\* candidate file that cannot be read or parsed was deleted from the tree.
RunAgainWithout ==
    /\ pc = "exited"
    /\ run = "first"
    /\ \E i \in BadCandidates(fs) : fs' = Without(fs, i)
    /\ Restart(sys_argv)

NextScan ==
    \/ MainError
    \/ MainScan
    \/ WalkDir
    \/ SkipFile
    \/ ScanFile
    \/ ScanFileRaises
    \/ ReportItem
    \/ CountItem
    \/ EndFile
    \/ Summary
    \/ RunAgain
    \/ RunAgainWithout

SpecScan == InitScan /\ [][NextScan]_vars

\* The statements of a running process: __main__, scan_directory and the loops
\* in it.
ProcessStep ==
    \/ MainError
    \/ MainScan
    \/ WalkDir
    \/ SkipFile
    \/ ScanFile
    \/ ScanFileRaises
    \/ ReportItem
    \/ CountItem
    \/ EndFile
    \/ Summary

\* What a statement of the process does to its position and to the lists it
\* works through.  Fairness is stated on these projections of ProcessStep:
\* each is enabled exactly where the statements it stands for are, and it
\* needs none of the path and syntax-tree operators to be evaluated.
\* Lines 93-99, 84-91, 79-80 and 82: __main__, the summary, the line of a
\* finding, the end of a block.
AdvancePc ==
    \/ pc = "main" /\ pc' \in {"exited", "walk"}
    \/ pc = "walk" /\ walk_todo = <<>> /\ pc' = "exited"
    \/ pc = "items" /\ missing # <<>> /\ pc' = "count"
    \/ pc = "items" /\ missing = <<>> /\ pc' \in {"walk", "files"}
\* Line 64: os.walk yields its next directory.
AdvanceWalk ==
    pc = "walk" /\ walk_todo # <<>> /\ yielded' = Append(yielded, Head(walk_todo))
\* Lines 71-78: the loop over `files` moves past a file, or the analysis of
\* the file raises.
AdvanceFile ==
    /\ pc = "files"
    /\ \/ files' = Tail(files) /\ pc' \in {"walk", "files", "items"}
       \/ files' = files /\ pc' = "crashed"
\* Line 81: the loop over `missing` moves past the finding just printed.
AdvanceItem == pc = "count" /\ missing' = Tail(missing)
Advance == AdvancePc \/ AdvanceWalk \/ AdvanceFile \/ AdvanceItem

\* A process that has a next statement executes it: the interpreter runs the
\* single thread of the program, which waits for nothing but the filesystem.
\* Whether the program is run again is up to its user.
SpecScanFair ==
    /\ InitScan
    /\ [][NextScan]_vars
    /\ WF_pc(AdvancePc)
    /\ WF_yielded(AdvanceWalk)
    /\ WF_<<pc, files>>(AdvanceFile)
    /\ WF_missing(AdvanceItem)

(***************************************************************************)
(* Specification of one call of analyze_file                               *)
(***************************************************************************)
InitAnalyze ==
    /\ \/ a_file \in DocFiles \cup BadFiles \cup RaisingFiles
       \/ \E n \in 0..MaxNodes :
            \E parents \in [1..n -> 0..(n - 1)] :
                /\ WellNested(parents)
                /\ \E kinds \in [1..n -> Kinds], docs \in [1..n -> TreeDocs] :
                        a_file = TreeFile(n, kinds, parents, docs)
    /\ a_pc = "call"
    /\ missing_items = <<>>
    /\ a_before = <<>>
    /\ NoProcess
    /\ NoAdr
    /\ NoCss

\* A list that lives from one call to the next (a module-level list, a
\* mutable default argument) instead of the local of line 18.
kept_missing_items(previous) == previous

\* Line 18: missing_items = [], a new list in every call, whatever list an
\* earlier call returned.
new_missing_items(previous) == <<>>

AnalyzeFile ==
    /\ a_pc = "call"
    /\ ~raises(a_file)
    /\ missing_items' = new_missing_items(missing_items) \o analyze_file(a_file)
    /\ a_pc' = "returned"
    /\ UNCHANGED <<a_file, a_before, svars, ovars>>

\* The call ends with the exception of line 28; nothing is returned.
AnalyzeFileRaises ==
    /\ a_pc = "call"
    /\ raises(a_file)
    /\ a_pc' = "raised"
    /\ UNCHANGED <<a_file, missing_items, a_before, svars, ovars>>

NextAnalyze == AnalyzeFile \/ AnalyzeFileRaises

SpecAnalyze == InitAnalyze /\ [][NextAnalyze]_vars

(***************************************************************************)
(* Specification of analyze_file called on one file after another          *)
(***************************************************************************)
\* Largest number of calls in a row.
MaxCalls == 3

InitAnalyzeSeq ==
    /\ a_file \in ScanSamples
    /\ a_pc = "call"
    /\ missing_items = <<>>
    /\ a_before = <<>>
    /\ NoProcess
    /\ NoAdr
    /\ NoCss

\* Line 74, in the next round of the loop: the caller keeps what the call
\* returned and calls analyze_file on another file.
AnalyzeAgain ==
    /\ a_pc = "returned"
    /\ Len(a_before) + 1 < MaxCalls
    /\ a_before' = Append(a_before, [file |-> a_file, found |-> missing_items])
    /\ a_file' \in ScanSamples
    /\ a_pc' = "call"
    /\ UNCHANGED <<missing_items, svars, ovars>>

NextAnalyzeSeq == AnalyzeFile \/ AnalyzeFileRaises \/ AnalyzeAgain

SpecAnalyzeSeq == InitAnalyzeSeq /\ [][NextAnalyzeSeq]_vars

(***************************************************************************)
(* Claims about analyze_file                                               *)
(***************************************************************************)
Returned == a_pc = "returned"
DeclNodes == {a_file.nodes[i] : i \in {j \in DOMAIN a_file.nodes : a_file.nodes[j].kind # "If"}}
\* The function-like declarations that are immediate members of a class body.
ClassMembers ==
    {a_file.nodes[i] : i \in {j \in DOMAIN a_file.nodes :
        /\ a_file.nodes[j].kind \in FunctionKinds
        /\ a_file.nodes[j].parent # 0
        /\ a_file.nodes[a_file.nodes[j].parent].kind = "ClassDef"}}
ItemsAt(lineno) == {k \in DOMAIN missing_items : missing_items[k].line = lineno}

\* C1: a function-like declaration that is an immediate member of a class body
\* gives at most one finding, of kind Method, and never also a Function finding
\* for the same line.
C1_MethodReportedOnce ==
    Returned =>
        \A m \in ClassMembers :
            /\ Cardinality(ItemsAt(m.lineno)) <= 1
            /\ \A k \in ItemsAt(m.lineno) : missing_items[k].type = "Method"

\* str.strip() of the leading literal is non-empty: some character is not whitespace.
NonEmptyAfterTrim(doc) == doc # NoDoc /\ \E i \in DOMAIN doc : doc[i] \notin Whitespace

\* C2: a declaration is reported as missing if and only if the first statement of
\* its body is not a string literal that is non-empty after trimming.
C2_MissingIffNotTrimmedDoc ==
    Returned =>
        \A n \in DeclNodes : (ItemsAt(n.lineno) # {}) <=> ~NonEmptyAfterTrim(n.doc)

(***************************************************************************)
(* Claims about the scan                                                   *)
(***************************************************************************)
Exited == pc = "exited"
ValidRoot == isdir(fs, target_dir)
IsItem(l) == l.t = "is missing a docstring."
IsHeader(l) == l.t = "filepath:"
ItemLines(o) == SelectSeq(o, IsItem)
HeaderPaths(o) == [k \in DOMAIN SelectSeq(o, IsHeader) |-> SelectSeq(o, IsHeader)[k].path]
Range(q) == {q[k] : k \in DOMAIN q}
\* The candidate files of the tree: the files whose name ends in ".py".
Candidates == {i \in 1..Len(fs) : fs[i].kind = "file" /\ endswith(fs[i].name, PY)}

\* C3: a completed scan of a valid root exits with 0 if and only if no finding
\* was reported, and with 1 otherwise.
C3_ExitCodeIffNoFindings ==
    (Exited /\ ValidRoot) =>
        /\ exit_code \in {0, 1}
        /\ exit_code = 0 <=> ItemLines(out) = <<>>
C3_Witness == Exited /\ ValidRoot /\ exit_code = 1 /\ Len(ItemLines(out)) = 1

\* C4: with a root that is not a directory the program prints the error message
\* and nothing else, exits with 1, and scan_directory never runs: no file is
\* analyzed and no directory is walked.
C4_InvalidRootOnlyError ==
    ~ValidRoot =>
        /\ pc \in {"main", "exited"}
        /\ analyzed = <<>>
        /\ walk_todo = <<>>
        /\ pc = "main" => out = <<>>
        /\ pc = "exited" => (out = <<PrintError(target_dir)>> /\ exit_code = 1)
C4_Witness ==
    Exited /\ ~ValidRoot /\ Resolve(fs, target_dir) # NotFound /\ Len(fs) = MaxEntries

\* C5: a candidate file that cannot be read or parsed changes nothing: after it
\* is deleted, the same command prints the same output, exits with the same
\* code, counts the same files and findings and analyzes the same other files.
C5_BadFileAsIfAbsent ==
    (run = "second" /\ Exited /\ prev.fs # fs) =>
        /\ out = prev.out
        /\ exit_code = prev.exit_code
        /\ ValidRoot => /\ files_scanned = prev.files_scanned
                        /\ total_missing = prev.total_missing
        /\ analyzed = SelectSeq(prev.analyzed, LAMBDA path : Resolve(fs, path) # NotFound)
C5_Witness ==
    /\ run = "second" /\ Exited /\ prev.fs # fs
    /\ Len(prev.analyzed) = Len(analyzed) + 1
    /\ ItemLines(out) # <<>>

\* C6: without an argument the scan analyzes the same candidate files and
\* reports the same findings and exit code as a scan given the working
\* directory by a path none of whose segments starts with ".".
C6_NoArgSameAsExplicit ==
    (/\ run = "second" /\ Exited /\ prev.fs = fs
     /\ prev.sys_argv = <<Script>> /\ sys_argv = <<Script, Cwd>>) =>
        /\ {abspath(path) : path \in Range(analyzed)}
             = {abspath(path) : path \in Range(prev.analyzed)}
        /\ ItemLines(out) = ItemLines(prev.out)
        /\ exit_code = prev.exit_code

RECURSIVE walk_path(_, _)
\* The path os.walk gives directory n (0 is the root of the scan).
walk_path(tree, n) ==
    IF n = 0 THEN target_dir ELSE path_join(walk_path(tree, tree[n].parent), tree[n].name)

\* Some segment starts with "." or is exactly the cache directory name.
SegmentExcluded(path) ==
    \E k \in DOMAIN split(path, sep) :
        startswith(split(path, sep)[k], <<".">>) \/ split(path, sep)[k] = PYCACHE

\* C7: the candidate files of a directory are left out of the analysis exactly
\* when some segment of the directory's path starts with "." or is exactly
\* "__pycache__".
C7_ExcludedIffDotOrCacheSegment ==
    (Exited /\ ValidRoot) =>
        \A i \in Candidates :
            LET dir == walk_path(fs, fs[i].parent)
            IN  (path_join(dir, fs[i].name) \notin Range(analyzed)) <=> SegmentExcluded(dir)

\* The root holds nothing but hidden directories and cache directories.
OnlyHiddenAndCache ==
    \A i \in Children(fs, 0) :
        fs[i].kind = "dir" /\ (startswith(fs[i].name, <<".">>) \/ fs[i].name = PYCACHE)

\* C8: a scan of a root that holds only hidden directories and cache
\* directories, whatever they contain, counts no file and no finding, and
\* exits with 0.
C8_OnlyHiddenAndCacheScansNothing ==
    (Exited /\ ValidRoot /\ OnlyHiddenAndCache) =>
        /\ files_scanned = 0
        /\ total_missing = 0
        /\ exit_code = 0
        /\ analyzed = <<>>
C8_Witness ==
    /\ Exited /\ ValidRoot /\ OnlyHiddenAndCache
    /\ sys_argv = <<Script, Cwd>>
    /\ \E i \in Candidates :
        /\ startswith(fs[fs[i].parent].name, <<".">>)
        /\ analyze_file(fs[i].content) # <<>>

RECURSIVE chain(_, _)
\* The directories from the root of the scan down to directory n.
chain(tree, n) == IF n = 0 THEN <<0>> ELSE Append(chain(tree, tree[n].parent), n)

\* Directory a is yielded by a top-down walk before directory b: a encloses b,
\* or where their chains part a's branch was enumerated first.
DirBefore(tree, a, b) ==
    LET ca == chain(tree, a)
        cb == chain(tree, b)
        common == {k \in 1..Len(ca) : k <= Len(cb) /\ SubSeq(ca, 1, k) = SubSeq(cb, 1, k)}
        k == Cardinality(common)
    IN  IF k = Len(ca) THEN Len(cb) > Len(ca)
        ELSE IF k = Len(cb) THEN FALSE
        ELSE ca[k + 1] < cb[k + 1]

\* File i is discovered before file j.
DiscoveredBefore(tree, i, j) ==
    IF tree[i].parent = tree[j].parent THEN i < j
    ELSE DirBefore(tree, tree[i].parent, tree[j].parent)

ParsedFiles == {k \in DOMAIN analyzed : file_at(fs, analyzed[k]).status = "ok"}

\* C11: at the end of a scan files_scanned is the number of candidate files
\* that were read and parsed, those without findings included.
C11_FilesScannedCountsParsed ==
    (Exited /\ ValidRoot) => files_scanned = Cardinality(ParsedFiles)

\* The block of a file: nothing without findings, else the header, one line per
\* finding and the blank line.
ExpectedBlock(path) ==
    LET found == analyze_file(file_at(fs, path))
    IN  IF found = <<>> THEN <<>>
        ELSE <<PrintFile(path)>> \o [k \in 1..Len(found) |-> PrintItem(found[k])]
                \o <<PrintBlank>>
ExpectedBlocks == Flatten([k \in 1..Len(analyzed) |-> ExpectedBlock(analyzed[k])])

\* C12: a file gets a block (header, then its finding lines) if and only if
\* analyze_file returned at least one finding for it, and no header is ever
\* left without a finding line under it.
C12_BlockIffFindings ==
    /\ \A k \in DOMAIN out :
            IsHeader(out[k]) =>
                IF k < Len(out) THEN IsItem(out[k + 1])
                ELSE pc = "items" /\ missing # <<>>
    /\ (Exited /\ ValidRoot) =>
            /\ SubSeq(out, 2, Len(ExpectedBlocks) + 1) = ExpectedBlocks
            /\ ~IsHeader(out[1])
            /\ \A k \in (Len(ExpectedBlocks) + 2)..Len(out) : ~IsHeader(out[k])
C12_Witness ==
    /\ Exited /\ ValidRoot
    /\ Len(analyzed) = 2
    /\ Len(HeaderPaths(out)) = 1
    /\ \E k \in DOMAIN analyzed : file_at(fs, analyzed[k]) = DocumentedFile

(***************************************************************************)
(* Further claims about analyze_file                                       *)
(***************************************************************************)
\* The file holds one class and, as its immediate members, one documented and
\* one undocumented method.
OneClassTwoMethods ==
    /\ a_file.status = "ok"
    /\ Len(a_file.nodes) = 3
    /\ a_file.nodes[1].kind = "ClassDef"
    /\ \A i \in {2, 3} : a_file.nodes[i].kind \in FunctionKinds /\ a_file.nodes[i].parent = 1
    /\ {a_file.nodes[2].doc, a_file.nodes[3].doc} = {NoDoc, <<"x">>}
UndocumentedMethod == IF a_file.nodes[2].doc = NoDoc THEN a_file.nodes[2] ELSE a_file.nodes[3]

\* C13: for a file of one class with one documented and one undocumented
\* method, analyze_file returns exactly one Method finding, named
\* Class.method, and no finding of another kind for the undocumented method.
C13_OneMethodFinding ==
    (Returned /\ OneClassTwoMethods) =>
        /\ Cardinality({k \in DOMAIN missing_items : missing_items[k].type = "Method"}) = 1
        /\ ItemsAt(UndocumentedMethod.lineno) # {}
        /\ \A k \in ItemsAt(UndocumentedMethod.lineno) :
                missing_items[k] =
                    Finding("Method", UndocumentedMethod.lineno,
                            a_file.nodes[1].name \o "." \o UndocumentedMethod.name)

\* A file of one plain function whose body starts with the literal doc.
PlainFunction(doc) ==
    [status |-> "ok",
     nodes |-> <<[kind |-> "FunctionDef", parent |-> 0, name |-> "f", lineno |-> 1,
                  doc |-> doc]>>]

\* C14: a declaration of any kind and any name is reported as missing exactly
\* when a plain function with the same leading literal is.
C14_SameRuleForEveryKindAndName ==
    Returned =>
        \A n \in DeclNodes :
            (ItemsAt(n.lineno) # {}) <=> (analyze_file(PlainFunction(n.doc)) # <<>>)
C14_Witness ==
    /\ Returned
    /\ Len(a_file.nodes) = 3
    /\ a_file.nodes[1].kind = "ClassDef"
    /\ a_file.nodes[2].kind = "FunctionDef" /\ a_file.nodes[2].name = "__init__"
    /\ a_file.nodes[3].kind = "AsyncFunctionDef" /\ a_file.nodes[3].name = "__str__"
    /\ \A i \in 1..3 : a_file.nodes[i].doc = NoDoc /\ ItemsAt(i) # {}
    /\ \A i \in 2..3 : a_file.nodes[i].parent = 1

\* C15: a finding for a standalone function-like declaration has kind
\* AsyncFunction when the declaration is asynchronous and Function otherwise.
C15_AsyncKindDistinguished ==
    Returned =>
        \A i \in DOMAIN a_file.nodes :
            a_file.nodes[i].kind \in FunctionKinds =>
                \A k \in ItemsAt(a_file.nodes[i].lineno) :
                    missing_items[k].type # "Method" =>
                        missing_items[k].type =
                            IF a_file.nodes[i].kind = "AsyncFunctionDef"
                            THEN "AsyncFunction" ELSE "Function"

\* C19: the findings of a file are returned in ascending order of line number.
C19_FindingsInLineOrder ==
    Returned =>
        \A k \in 1..(Len(missing_items) - 1) :
            missing_items[k].line <= missing_items[k + 1].line

\* C20: a Method finding is produced only for a function-like declaration that
\* is an immediate member of a class body, and it is named after that class;
\* declarations nested deeper give no Method finding.
C20_MethodOnlyForImmediateMembers ==
    Returned =>
        \A k \in DOMAIN missing_items :
            missing_items[k].type = "Method" =>
                \E m \in ClassMembers :
                    /\ missing_items[k].line = m.lineno
                    /\ missing_items[k].name = a_file.nodes[m.parent].name \o "." \o m.name
C20_Witness ==
    /\ Returned
    /\ Len(a_file.nodes) = 3
    /\ a_file.nodes[1].kind = "ClassDef"
    /\ a_file.nodes[2].kind \in {"If", "FunctionDef"} /\ a_file.nodes[2].parent = 1
    /\ a_file.nodes[3].kind = "FunctionDef" /\ a_file.nodes[3].parent = 2
    /\ a_file.nodes[3].doc = NoDoc
    /\ \E k \in ItemsAt(3) : missing_items[k].type = "Function"

(***************************************************************************)
(* Further claims about the scan                                           *)
(***************************************************************************)
\* The process is over: sys.exit was called, or an exception ended it.
Ended == pc \in {"exited", "crashed"}

\* C16: whatever the candidate files hold, a run on a valid root ends with the
\* full report printed, summary included, and exit code 0 or 1; it never ends
\* with an uncaught exception.
C16_NeverCrashes ==
    (Ended /\ ValidRoot) =>
        /\ pc = "exited"
        /\ PrintSummary \in Range(out)
        /\ exit_code \in {0, 1}

\* The real directories of the tree: the working directory and the entries
\* that are directories.
RealDirs == {0} \cup {i \in 1..Len(fs) : fs[i].kind = "dir"}

\* No directory yielded by os.walk, the root aside, is a symbolic link, and no
\* directory is yielded twice, under one path or two.
WalkedOnceNoLinks ==
    /\ \A k \in 2..Len(yielded) : ~islink(fs, yielded[k])
    /\ \A j, k \in DOMAIN yielded : j # k => Resolve(fs, yielded[j]) # Resolve(fs, yielded[k])
    /\ (Exited /\ ValidRoot) =>
            /\ {Resolve(fs, yielded[k]) : k \in DOMAIN yielded} = RealDirs
            /\ LET summary == <<PrintSummary, PrintTotal(total_missing)>>
                                \o (IF total_missing > 0 THEN <<>> ELSE <<PrintNone>>)
               IN  SubSeq(out, Len(out) - Len(summary) + 1, Len(out)) = summary

\* The scan is over: the summary was printed and sys.exit called, or the
\* exception of a file whose analysis raises ended the process.
ScanEnded ==
    \/ Exited
    \/ pc = "crashed" /\ raises(file_at(fs, analyzed[Len(analyzed)]))

\* What holds of the scan's termination: the walk does not descend into a
\* symbolic link, yields each real directory once, and the process ends, with
\* the summary and sys.exit or with the exception of a file whose analysis
\* raises.  The second conjunct ties the fairness conditions of SpecScanFair
\* to the statements of the process.
ScanTerminates ==
    /\ []WalkedOnceNoLinks
    /\ [][ProcessStep <=> Advance]_vars
    /\ (pc = "walk") ~> ScanEnded

\* C17: on every finite tree, trees with symbolic links to directories that
\* form cycles included, scan_directory terminates: the walk does not descend
\* into a symbolic link, each real directory is visited once, and the run
\* eventually prints the summary and exits.
C17_ScanPrintsSummaryAndExits ==
    /\ []WalkedOnceNoLinks
    /\ (pc = "walk") ~> (Exited /\ PrintSummary \in Range(out))
\* A scan of a tree whose subdirectory holds a symbolic link back to the root
\* has exited after yielding the root and the subdirectory.
C17_Witness ==
    /\ Exited /\ ValidRoot
    /\ Len(yielded) = 2
    /\ \E i \in 1..Len(fs) :
            /\ fs[i].kind = "link"
            /\ fs[i].parent # 0
            /\ islink(fs, path_join(yielded[2], fs[i].name))
            /\ Resolve(fs, path_join(yielded[2], fs[i].name)) = 0

(***************************************************************************)
(* Claims about analyze_file called on one file after another              *)
(***************************************************************************)
\* C18: the findings of a file are the same whatever files were analyzed
\* before it and in whatever order: every call on a file returns what every
\* other call on the same file returned, the first call of all included.
C18_FindingsIndependentOfEarlierCalls ==
    /\ \A j, k \in DOMAIN a_before :
            a_before[j].file = a_before[k].file => a_before[j].found = a_before[k].found
    /\ Returned =>
            \A k \in DOMAIN a_before :
                a_before[k].file = a_file => a_before[k].found = missing_items
C18_Witness ==
    /\ Returned
    /\ Len(a_before) = 2
    /\ a_before[1].file = a_file
    /\ a_before[2].file # a_file
    /\ Len(a_before[2].found) = 2
    /\ missing_items # <<>>

(***************************************************************************)
(* Claims about the course of the scan                                     *)
(***************************************************************************)
\* The candidate files the walk reaches: the files named *.py of the
\* directories whose triple is not skipped, by the path the scan gives them.
ScanCandidatePaths ==
    {path_join(walk_path(fs, fs[i].parent), fs[i].name) :
        i \in {j \in Candidates : ~skipped(walk_path(fs, fs[j].parent))}}

SummaryLines == {k \in DOMAIN out : out[k] = PrintSummary}
IsBlockLine(l) == IsHeader(l) \/ IsItem(l) \/ l = PrintBlank

\* C21: a finding never aborts the scan: a run that exits has analyzed every
\* candidate file, each once, whatever findings the files before it gave; the
\* summary is printed exactly once, after every line of the per-file blocks,
\* and the process exits only after it.  A run ends without the summary only
\* by the exception of a file whose analysis raises, never by a finding.
C21_FindingsNeverAbort ==
    /\ Cardinality(SummaryLines) = IF Exited /\ ValidRoot THEN 1 ELSE 0
    /\ \A k \in SummaryLines : \A j \in DOMAIN out : IsBlockLine(out[j]) => j < k
    /\ (Exited /\ ValidRoot) =>
            /\ Range(analyzed) = ScanCandidatePaths
            /\ Len(analyzed) = Cardinality(ScanCandidatePaths)
    /\ pc = "crashed" => raises(file_at(fs, analyzed[Len(analyzed)]))
C21_Witness ==
    /\ Exited /\ ValidRoot
    /\ Len(analyzed) = 2
    /\ Len(analyze_file(file_at(fs, analyzed[1]))) = 2
    /\ analyze_file(file_at(fs, analyzed[2])) # <<>>
    /\ exit_code = 1

\* scan_directory is running or has run: its locals have their values.
InScan == ValidRoot /\ pc \notin {"none", "main"}

\* The findings analyze_file returned for the files analyzed so far.
FindingsReturned ==
    Flatten([k \in 1..Len(analyzed) |->
                IF raises(file_at(fs, analyzed[k])) THEN <<>>
                ELSE analyze_file(file_at(fs, analyzed[k]))])

\* The summary line gives the number of findings analyze_file returned for
\* the analyzed files.
SummaryCountsFindings ==
    (Exited /\ ValidRoot) =>
        /\ total_missing = Len(FindingsReturned)
        /\ PrintTotal(Len(FindingsReturned)) \in Range(out)

\* C22, as claimed: at every point of scan_directory total_missing is the
\* number of finding lines printed so far, and so the count of the summary line
\* is the number of findings returned for the analyzed files.
C22_TotalIsLinesPrintedAtEveryPoint ==
    /\ InScan => total_missing = Len(ItemLines(out))
    /\ SummaryCountsFindings

\* C22, amended: total_missing is the number of finding lines printed so far
\* at every point of scan_directory but one: between the print of line 80 and
\* the increment of line 81 it is one less.  The count of the summary line is
\* the number of findings returned for the analyzed files.
C22_TotalIsLinesPrintedBetweenFindings ==
    /\ InScan =>
            total_missing = Len(ItemLines(out)) - (IF pc = "count" THEN 1 ELSE 0)
    /\ SummaryCountsFindings
C22_Witness ==
    /\ InScan
    /\ pc = "count"
    /\ total_missing = 1
    /\ Len(ItemLines(out)) = 2

(***************************************************************************)
(* The ADR helper (src/code-documentation/create_adr.py)                   *)
(***************************************************************************)
\* Line 13
ADR_DIR == <<"d", "o", "c", "s", "/", "a", "d", "r">>
MD == <<".", "m", "d">>

DigitChars == <<"0", "1", "2", "3", "4", "5", "6", "7", "8", "9">>
\* str.isdigit()
isdigit(s) == s # <<>> /\ \A i \in DOMAIN s : \E k \in DOMAIN DigitChars : DigitChars[k] = s[i]

RECURSIVE int(_)
\* int(s) for a string of decimal digits
int(s) ==
    IF s = <<>> THEN 0
    ELSE int(SubSeq(s, 1, Len(s) - 1)) * 10
            + (CHOOSE k \in DOMAIN DigitChars : DigitChars[k] = s[Len(s)]) - 1

RECURSIVE str(_)
\* str(n) for n >= 0
str(n) == IF n < 10 THEN <<DigitChars[n + 1]>> ELSE str(n \div 10) \o <<DigitChars[(n % 10) + 1]>>

\* f"{num:04d}": the decimal digits, padded with zeros on the left to width 4.
format_04d(num) == [k \in 1..(4 - Len(str(num))) |-> "0"] \o str(num)

\* str.lower() on the letters the titles are written with.
lower(s) == [i \in DOMAIN s |-> IF s[i] = "X" THEN "x" ELSE IF s[i] = "Y" THEN "y" ELSE s[i]]
\* str.replace(old, new) for one-character strings.
replace(s, old, new) == [i \in DOMAIN s |-> IF s[i] = old THEN new ELSE s[i]]

\* Lines 93-94
adr_filename(num, title) ==
    LET safe_title == replace(replace(lower(title), " ", "-"), "/", "-")
    IN  format_04d(num) \o <<"-">> \o safe_title \o MD

\* os.path.basename(path)
basename(path) == split(path, sep)[Len(split(path, sep))]
\* os.path.exists(path) for a path in the ADR directory.
exists(dir, path) ==
    IF path = ADR_DIR THEN dir.exists ELSE dir.exists /\ basename(path) \in DOMAIN dir.files

max(a, b) == IF a > b THEN a ELSE b

RECURSIVE max_num_over(_, _)
\* Lines 73-81: the loop over os.listdir(directory), whose order does not
\* change the maximum.
max_num_over(listing, max_num) ==
    IF listing = {} THEN max_num
    ELSE LET filename == CHOOSE name \in listing : TRUE
             num_str == split(filename, "-")[1]
         IN  max_num_over(listing \ {filename},
                          IF endswith(filename, MD) /\ isdigit(num_str)
                          THEN max(max_num, int(num_str))
                          ELSE max_num)

\* get_next_adr_number counting the .md files instead of reading their numbers.
get_next_adr_number_counts(dir) ==
    IF ~dir.exists THEN 1
    ELSE Cardinality({name \in DOMAIN dir.files : endswith(name, MD)}) + 1

\* Lines 67-82
get_next_adr_number(dir) ==
    IF ~dir.exists THEN 1 ELSE max_num_over(DOMAIN dir.files, 0) + 1

\* Lines 103-108: the content written, which the number and the title determine
\* (on one day); `by` is the call that wrote it, 0 for a file that was there
\* before any call.
Content(num, title, by) == [num |-> num, title |-> title, by |-> by]
OldContent == Content(0, <<>>, 0)

\* Largest number of files in the directory before the first call.
MaxAdrFiles == 2
\* Largest number of calls of the script.
MaxAdrCalls == 2

AdrSampleNames ==
    {<<"0", "0", "0", "1", "-", "x">> \o MD,
     <<"0", "0", "0", "2", "-", "x", "-", "y">> \o MD,
     <<"0", "0", "0", "3">> \o MD,
     <<"9", "-", "y">> \o MD,
     <<"0", "0", "0", "4", "-", "x", ".", "t", "x", "t">>,
     <<"x", "-", "5">> \o MD}

\* sys.argv: no title, a title of one word, and two titles that give the same
\* file name.
AdrArgvChoices ==
    {<<Script>>, <<Script, <<"x">>>>, <<Script, <<"X">>, <<"y">>>>, <<Script, <<"x", "/", "y">>>>}

Procs == {1, 2}
Idle ==
    [pc |-> "idle", title |-> <<>>, num |-> 0, filepath |-> <<>>, before |-> <<>>,
     said |-> "", status |-> 0 - 1, call |-> 0]

Running(p) == adr_proc[p].pc \notin {"idle", "ended"}
CallsStarted == Len(adr_log) + Cardinality({p \in Procs : Running(p)})

InitAdrDir ==
    \/ adr_dir = [exists |-> FALSE, files |-> <<>>]
    \/ \E names \in SUBSET AdrSampleNames :
            /\ Cardinality(names) <= MaxAdrFiles
            /\ adr_dir = [exists |-> TRUE, files |-> [name \in names |-> OldContent]]

\* No call of the script has started.
NoAdrCall ==
    /\ InitAdrDir
    /\ adr_proc = [p \in Procs |-> Idle]
    /\ adr_log = <<>>
    /\ NoProcess
    /\ NoCall
    /\ NoCss

\* The calls may run concurrently.
InitAdr == NoAdrCall /\ adr_mode = "concurrent"
\* A call starts only when no other call is running.
InitAdrSeq == NoAdrCall /\ adr_mode = "sequential"

\* What a call that has ended leaves in the log.
Ended_call(p, said, status, created, overwrote, left) ==
    [by |-> p, call |-> adr_proc[p].call, title |-> adr_proc[p].title,
     num |-> adr_proc[p].num, name |-> basename(adr_proc[p].filepath),
     created |-> created, overwrote |-> overwrote,
     before |-> adr_proc[p].before, after |-> left, said |-> said, status |-> status]

\* Lines 119-125: the script is started; without a title it prints its usage
\* and exits with 1.
AdrMain(p) ==
    /\ ~Running(p)
    /\ CallsStarted < MaxAdrCalls
    /\ adr_mode = "sequential" => \A q \in Procs : ~Running(q)
    /\ \E argv \in AdrArgvChoices :
        LET started == [Idle EXCEPT !.call = CallsStarted + 1, !.before = adr_dir.files]
        IN  IF Len(argv) < 2
            THEN /\ adr_proc' = [adr_proc EXCEPT ![p] =
                                    [started EXCEPT !.pc = "ended", !.said = "Usage",
                                                    !.status = 1]]
                 /\ adr_log' = Append(adr_log,
                        [by |-> p, call |-> CallsStarted + 1, title |-> <<>>, num |-> 0,
                         name |-> <<>>, created |-> FALSE, overwrote |-> FALSE,
                         before |-> adr_dir.files, after |-> adr_dir.files,
                         said |-> "Usage", status |-> 1])
            ELSE /\ adr_proc' = [adr_proc EXCEPT ![p] =
                                    [started EXCEPT !.pc = "makedirs",
                                                    !.title = join(Tail(argv), " ")]]
                 /\ UNCHANGED adr_log
    /\ UNCHANGED <<adr_dir, adr_mode, avars, svars, cvars>>

\* Line 87: os.makedirs(ADR_DIR, exist_ok=True)
AdrMakeDirs(p) ==
    /\ adr_proc[p].pc = "makedirs"
    /\ adr_dir' = [adr_dir EXCEPT !.exists = TRUE]
    /\ adr_proc' = [adr_proc EXCEPT ![p].pc = "number"]
    /\ UNCHANGED <<adr_log, adr_mode, avars, svars, cvars>>

\* Lines 90-95: the next number, read from the directory as it is now, and the
\* file path made of it.
AdrNumber(p) ==
    /\ adr_proc[p].pc = "number"
    /\ LET num == get_next_adr_number(adr_dir)
       IN  adr_proc' = [adr_proc EXCEPT ![p].pc = "check", ![p].num = num,
                            ![p].filepath = path_join(ADR_DIR, adr_filename(num, adr_proc[p].title))]
    /\ UNCHANGED <<adr_dir, adr_log, adr_mode, avars, svars, cvars>>

\* Lines 98-100: the call gives up when the file exists.
AdrCheck(p) ==
    /\ adr_proc[p].pc = "check"
    /\ IF exists(adr_dir, adr_proc[p].filepath)
       THEN /\ adr_proc' = [adr_proc EXCEPT ![p].pc = "ended", ![p].said = "Error: exists",
                                            ![p].status = 1]
            /\ adr_log' = Append(adr_log,
                    Ended_call(p, "Error: exists", 1, FALSE, FALSE, adr_dir.files))
       ELSE /\ adr_proc' = [adr_proc EXCEPT ![p].pc = "write"]
            /\ UNCHANGED adr_log
    /\ UNCHANGED <<adr_dir, adr_mode, avars, svars, cvars>>

\* Lines 103-114: open(filepath, "w") creates the file, or empties the file
\* that is there, and the content is written; the script ends with status 0.
AdrWrite(p) ==
    /\ adr_proc[p].pc = "write"
    /\ LET name == basename(adr_proc[p].filepath)
           written == (name :> Content(adr_proc[p].num, adr_proc[p].title, adr_proc[p].call))
                        @@ adr_dir.files
       IN  /\ adr_dir' = [adr_dir EXCEPT !.files = written]
           /\ adr_log' = Append(adr_log,
                    Ended_call(p, "Successfully created ADR", 0, TRUE,
                               name \in DOMAIN adr_dir.files, written))
    /\ adr_proc' = [adr_proc EXCEPT ![p].pc = "ended", ![p].said = "Successfully created ADR",
                                    ![p].status = 0]
    /\ UNCHANGED <<adr_mode, avars, svars, cvars>>

\* Lines 111-117: open raises IOError (no permission, name too long); nothing
\* is written and the script exits with 1.
AdrWriteFails(p) ==
    /\ adr_proc[p].pc = "write"
    /\ adr_proc' = [adr_proc EXCEPT ![p].pc = "ended", ![p].said = "Error writing file",
                                    ![p].status = 1]
    /\ adr_log' = Append(adr_log,
            Ended_call(p, "Error writing file", 1, FALSE, FALSE, adr_dir.files))
    /\ UNCHANGED <<adr_dir, adr_mode, avars, svars, cvars>>

NextAdr ==
    \E p \in Procs :
        \/ AdrMain(p)
        \/ AdrMakeDirs(p)
        \/ AdrNumber(p)
        \/ AdrCheck(p)
        \/ AdrWrite(p)
        \/ AdrWriteFails(p)

\* Calls of the script by two users, in any interleaving of their steps.
SpecAdr == InitAdr /\ [][NextAdr]_vars
\* Calls of the script one after another.
SpecAdrSeq == InitAdrSeq /\ [][NextAdr]_vars

(***************************************************************************)
(* Claims about the ADR helper                                             *)
(***************************************************************************)
RECURSIVE LeadingDigits(_)
\* The digits a name starts with.
LeadingDigits(name) ==
    IF name # <<>> /\ isdigit(<<Head(name)>>)
    THEN <<Head(name)>> \o LeadingDigits(Tail(name))
    ELSE <<>>

\* The name is that of a numbered ADR file, NNNN-title.md: digits, a hyphen,
\* and the extension .md.
Numbered(name) ==
    /\ endswith(name, MD)
    /\ LeadingDigits(name) # <<>>
    /\ Len(name) > Len(LeadingDigits(name))
    /\ name[Len(LeadingDigits(name)) + 1] = "-"
\* The number such a file carries.
NumberOf(name) == int(LeadingDigits(name))

\* The calls that created a file.
Created == {k \in DOMAIN adr_log : adr_log[k].created}

C24_ConcurrentCallsNeverCollide ==
    /\ \A j, k \in Created : j # k => adr_log[j].num # adr_log[k].num
    /\ \A k \in Created : ~adr_log[k].overwrote

(***************************************************************************)
(* The CSS generator (src/minimal_clean/minimal_clean.py)                  *)
(*                                                                         *)
(* A dict with string keys is a record; a colour is kept as the format it  *)
(* was written with and its numbers, a size as its number of pixels, a line *)
(* height as its hundredths.                                               *)
(***************************************************************************)
Hex(text) == [fmt |-> "hex", text |-> text, h |-> 0, s |-> 0, l |-> 0]

\* f"hsl({h}, {s}%, {l}%)"
Hsl(h, s, l) == [fmt |-> "hsl", text |-> "", h |-> h, s |-> s, l |-> l]

\* Lines 41-76
generate_minimal_color_palette(base_hue, style) ==
    IF style = "monochrome"
    THEN [background |-> Hex("#fdfdfd"), surface |-> Hex("#f5f5f5"),
          text_primary |-> Hex("#212121"), text_secondary |-> Hex("#757575"),
          accent |-> Hsl(base_hue, 60, 50), accent_hover |-> Hsl(base_hue, 60, 40)]
    ELSE IF style = "duotone"
    THEN [background |-> Hex("#fdfdfd"), surface |-> Hex("#f5f5f5"),
          text_primary |-> Hex("#212121"), text_secondary |-> Hex("#757575"),
          primary |-> Hsl(base_hue, 60, 50),
          secondary |-> Hsl((base_hue + 120) % 360, 60, 50)]
    ELSE [background |-> Hex("#ffffff"), surface |-> Hex("#f8f9fa"),
          text |-> Hex("#333333"), accent |-> Hsl(base_hue, 70, 45)]

\* One level of the scale: f"{int(...)}px", the weight and the line height.
Level(px, weight, line_height) == [size |-> px, weight |-> weight, line_height |-> line_height]

\* Lines 78-121, for base_size >= 0: scale_factor is 1.25 = 5/4, whose powers
\* and quotients are exact here, and int() drops the fraction.
create_typography_system(base_size) ==
    [display |-> Level((base_size * 625) \div 256, 700, 120),
     h1 |-> Level((base_size * 125) \div 64, 600, 125),
     h2 |-> Level((base_size * 25) \div 16, 500, 130),
     h3 |-> Level((base_size * 5) \div 4, 500, 140),
     body |-> Level(base_size, 400, 160),
     small |-> Level((base_size * 4) \div 5, 400, 150)]

\* Lines 123-142
optimize_layout_spacing(base_unit) ==
    [xxs |-> base_unit \div 2, xs |-> base_unit, sm |-> base_unit * 2, md |-> base_unit * 3,
     lg |-> base_unit * 4, xl |-> base_unit * 6, xxl |-> base_unit * 8,
     xxxl |-> base_unit * 12]

\* The keys the template of lines 201-237 looks up, in the order the
\* f-string evaluates them.
PaletteKeys ==
    <<"background", "surface", "text_primary", "text_secondary", "accent", "accent_hover">>

SpacingKeys == <<"xxs", "xs", "sm", "md", "lg", "xl", "xxl", "xxxl">>

TypographyKeys == <<"display", "h1", "h2", "body">>

\* The lookups of the template that find no key, in evaluation order.
KeyErrors(pal, typ, sp) ==
    SelectSeq(PaletteKeys, LAMBDA key : key \notin DOMAIN pal)
    \o SelectSeq(SpacingKeys, LAMBDA key : key \notin DOMAIN sp)
    \o SelectSeq(TypographyKeys, LAMBDA key : key \notin DOMAIN typ)

\* A custom property of :root and the value substituted for it.
Declaration(property, value) == [property |-> property, value |-> value]

\* Lines 176-335, the arguments already replaced by their defaults: the
\* first lookup that finds no key raises KeyError; else the CSS is returned,
\* kept here as the declarations the arguments fill in.
generate_css_from_principles(pal, typ, sp) ==
    IF KeyErrors(pal, typ, sp) # <<>>
    THEN [raised |-> "KeyError", key |-> Head(KeyErrors(pal, typ, sp)), text |-> <<>>]
    ELSE [raised |-> "", key |-> "",
          text |-> [k \in DOMAIN PaletteKeys |->
                        Declaration(<<"color", PaletteKeys[k]>>, pal[PaletteKeys[k]])]
                   \o [k \in DOMAIN SpacingKeys |->
                        Declaration(<<"spacing", SpacingKeys[k]>>, sp[SpacingKeys[k]])]
                   \o [k \in DOMAIN TypographyKeys |->
                        Declaration(<<"font", TypographyKeys[k]>>, typ[TypographyKeys[k]])]]

\* The arguments explored.
BaseHues == {0, 220, 300}

Styles == {"monochrome", "duotone", "accent", "pastel"}

BaseSizes == {14, 16, 18}

BaseUnits == {4, 8, 9}

\* A caller that builds the three systems and passes them ("given", as
\* test_skill.py does), or passes nothing ("default").
InitCss ==
    /\ css_in \in [base_hue : BaseHues, style : Styles, base_size : BaseSizes,
                   base_unit : BaseUnits, args : {"given", "default"}]
    /\ css_pc = "start"
    /\ palette = <<>>
    /\ typography = <<>>
    /\ spacing = <<>>
    /\ css = <<>>
    /\ NoProcess
    /\ NoCall
    /\ NoAdr

GeneratePalette ==
    /\ css_pc = "start"
    /\ css_in.args = "given"
    /\ palette' = generate_minimal_color_palette(css_in.base_hue, css_in.style)
    /\ css_pc' = "palette"
    /\ UNCHANGED <<css_in, typography, spacing, css, avars, svars, dvars>>

CreateTypography ==
    /\ css_pc = "palette"
    /\ typography' = create_typography_system(css_in.base_size)
    /\ css_pc' = "typography"
    /\ UNCHANGED <<css_in, palette, spacing, css, avars, svars, dvars>>

OptimizeSpacing ==
    /\ css_pc = "typography"
    /\ spacing' = optimize_layout_spacing(css_in.base_unit)
    /\ css_pc' = "spacing"
    /\ UNCHANGED <<css_in, palette, typography, css, avars, svars, dvars>>

\* The caller is about to call generate_css_from_principles.
AtCssCall == css_pc = "spacing" \/ (css_pc = "start" /\ css_in.args = "default")

\* Lines 192-199: an argument left None gets its default.
PaletteArg ==
    IF css_in.args = "default" THEN generate_minimal_color_palette(220, "monochrome") ELSE palette

TypographyArg == IF css_in.args = "default" THEN create_typography_system(18) ELSE typography

SpacingArg == IF css_in.args = "default" THEN optimize_layout_spacing(8) ELSE spacing

\* generate_css_from_principles returns the CSS.
GenerateCss ==
    /\ AtCssCall
    /\ KeyErrors(PaletteArg, TypographyArg, SpacingArg) = <<>>
    /\ css' = generate_css_from_principles(PaletteArg, TypographyArg, SpacingArg)
    /\ css_pc' = "returned"
    /\ UNCHANGED <<css_in, palette, typography, spacing, avars, svars, dvars>>

\* generate_css_from_principles ends with the KeyError of a lookup.
GenerateCssRaises ==
    /\ AtCssCall
    /\ KeyErrors(PaletteArg, TypographyArg, SpacingArg) # <<>>
    /\ css' = generate_css_from_principles(PaletteArg, TypographyArg, SpacingArg)
    /\ css_pc' = "raised"
    /\ UNCHANGED <<css_in, palette, typography, spacing, avars, svars, dvars>>

NextCss ==
    \/ GeneratePalette
    \/ CreateTypography
    \/ OptimizeSpacing
    \/ GenerateCss
    \/ GenerateCssRaises

SpecCss == InitCss /\ [][NextCss]_vars

\* C25: for every palette generate_minimal_color_palette can return, whatever
\* the style, with the typography and spacing systems of
\* create_typography_system and optimize_layout_spacing,
\* generate_css_from_principles returns a CSS string and raises nothing.
C25_CssForEveryPalette ==
    /\ css_pc # "raised"
    /\ css_pc = "returned" => (css.raised = "" /\ css.text # <<>>)

\* A duotone palette was passed and the lookup of 'accent' raised.
C25_Witness ==
    /\ css_pc = "raised"
    /\ css_in.style = "duotone"
    /\ css.raised = "KeyError"
    /\ css.key = "accent"

====
